---- MODULE Spec2Model ----
(***************************************************************************)
(* Model of the MentOS process heap allocator (mentos/src/mem/kheap.c):    *)
(* sys_brk, __do_malloc, __do_free, __do_brk and the __blkmngr_* helpers.  *)
(*                                                                         *)
(* Memory is modelled word by word: `mem' maps every initialised 4-byte    *)
(* aligned address of the heap's pages to the 32-bit word stored there, so *)
(* block_t and heap_header_t are laid out exactly as in the i386 build     *)
(* (five 4-byte fields per block, three per header).                       *)
(*                                                                         *)
(* A uint32_t value u is represented by the integer u when u < 2^31 and by *)
(* u - 2^32 otherwise (its two's complement reading); all arithmetic goes  *)
(* through Add32/Sub32 and all comparisons through ULt/ULe/UGt/UGe, which  *)
(* are the unsigned 32-bit operations of the C code.                       *)
(***************************************************************************)
EXTENDS Integers, FiniteSets, Sequences, TLC

VARIABLES
    heap,     \* the heap vm_area of the task: NoHeap or [vm_start, vm_end]
    mem,      \* words of the heap pages written since the area was zeroed:
              \* address -> uint32_t (an unwritten word of the zeroed segment is 0)
    brk,      \* task->mm->brk
    start_brk,\* task->mm->start_brk
    status,   \* "ok", or how the kernel stopped: "assert", "fault", "hang"
    arg,      \* argument of the last sys_brk call
    path,     \* branch taken by the last sys_brk call: "none", "free", "malloc"
    ret,      \* value returned by the last sys_brk call
    live,     \* payload pointers returned by sys_brk and not freed since
    trip,     \* shape of the request history: "allocating" while only
              \* successful allocations were made since `live' was last empty,
              \* "freeing" once only frees followed them, "mixed" otherwise
    calls,    \* number of sys_brk calls made so far
    edges,    \* number of those calls whose argument came from EdgeArgs
    hist,     \* the calls made so far, in order: argument, value returned
              \* and branch taken of each
    thr,      \* two allocate requests running __do_malloc step by step on
              \* the same heap: for each its position (pc), rounded size,
              \* block and returned pointer
    raced,    \* one of them searched the free list while the other was
              \* between its search and its return
    lib       \* the user-space library (stdlib.c): its last call (op, arg,
              \* ret, whether and with what it issued the brk syscall, how
              \* it ended), the number of its calls, and for every pointer
              \* malloc returned and free has not taken the address the
              \* syscall had returned for it

vars == <<heap, mem, brk, start_brk, status, arg, path, ret, live, trip, calls, edges, hist,
          thr, raced, lib>>

----------------------------------------------------------------------------
(* Bounds of the model.                                                    *)

\* Number of sys_brk calls explored with ordinary requests only.
MaxCalls == 6
\* Number of sys_brk calls explored when arguments from EdgeArgs are allowed,
\* and how many of the calls may take such an argument.
MaxCallsEdge == 5
MaxEdgeCalls == 1
\* Number of sys_brk calls explored with the request sizes of the scenarios.
MaxCallsScenario == 4

\* Number of sys_brk calls explored in the runs with double frees.
MaxCallsDouble == 6
\* Number of library calls explored.
MaxLibCalls == 6
\* Largest old size of a buffer passed to realloc.
MaxCopy == 64

----------------------------------------------------------------------------
(* Program constants.                                                      *)

NULL == 0
\* sizeof(block_t): five 4-byte fields.
OVERHEAD == 20
\* sizeof(heap_header_t): three 4-byte pointers.
HEADER_SIZE == 12
\* Granularity of __blkmngr_get_rounded_size.
ROUND == 16
\* Start address requested for the heap area.
HEAP_VM_START == 1073741824
\* Size of a page (the granularity at which the heap area is mapped).
PAGE_SIZE == 4096
\* Size of a machine word.
WORD == 4

\* #define MALLOC_MAGIC_NUMBER 0x600DC0DE and sizeof(malloc_header_t)
\* (stdlib.c).
MALLOC_MAGIC_NUMBER == 1611513054
MALLOC_HEADER_SIZE == 8

\* size_t heap_size = 4 * M ("Set the heap to 4 Mb").
heap_size == 4 * 1048576
\* size_t segment_size = heap_size + sizeof(heap_header_t) + sizeof(block_t)
segment_size == heap_size + HEADER_SIZE + OVERHEAD

\* Field offsets of block_t.
OFF_SIZE == 0
OFF_NEXTFREE == 4
OFF_PREVFREE == 8
OFF_PREV == 12
OFF_NEXT == 16
\* Field offsets of heap_header_t.
OFF_HEAD == 0
OFF_TAIL == 4
OFF_FREE == 8

----------------------------------------------------------------------------
(* uint32_t arithmetic.                                                    *)

Lo16(a) == a % 65536
Hi16(a) == (a \div 65536) % 65536
Mk32(h, l) == IF h >= 32768 THEN (h - 65536) * 65536 + l ELSE h * 65536 + l

\* a + b modulo 2^32
Add32(a, b) ==
    LET l == Lo16(a) + Lo16(b)
        h == (Hi16(a) + Hi16(b) + (l \div 65536)) % 65536
    IN  Mk32(h, l % 65536)

\* a - b modulo 2^32
Sub32(a, b) ==
    LET l == Lo16(a) - Lo16(b)
        h == (Hi16(a) - Hi16(b) + (l \div 65536)) % 65536
    IN  Mk32(h, l % 65536)

\* Unsigned comparisons.
ULt(a, b) == IF (a >= 0) = (b >= 0) THEN a < b ELSE a >= 0
ULe(a, b) == a = b \/ ULt(a, b)
UGt(a, b) == ULt(b, a)
UGe(a, b) == ULe(b, a)

\* 0xFFFFFFFF
UINT32_MAX == -1

----------------------------------------------------------------------------
(* The machine: memory, mm->brk and how far the call has got.              *)
(*                                                                         *)
(* The C functions below are operators from a machine state                *)
(*   M = [mem, brk, st, zlo, zhi]                                          *)
(* to a machine state (plus a value for the ones that return one).  Once   *)
(* st is not "ok" the kernel has stopped and every later step is skipped:  *)
(*   "assert"  an assert() of kheap.c failed,                              *)
(*   "fault"   an access outside the pages of the heap area, or a read of  *)
(*             a word of those pages that nothing has initialised,         *)
(*   "hang"    a list walk entered a cycle and never ends.                 *)
(* [zlo, zhi) is the range zeroed by memset when the heap was created.     *)

NoHeap == [vm_start |-> NULL, vm_end |-> NULL]

\* Bytes of the pages backing the heap area (segment_size rounded to pages).
MappedBytes == ((segment_size + PAGE_SIZE - 1) \div PAGE_SIZE) * PAGE_SIZE

\* The address lies in the pages of the heap area, word aligned.
Mapped(a) ==
    /\ a >= HEAP_VM_START
    /\ a < HEAP_VM_START + MappedBytes
    /\ a % WORD = 0

Stop(M, how) == IF M.st = "ok" THEN [M EXCEPT !.st = how] ELSE M

\* assert(cond)
Check(M, cond) == IF M.st # "ok" \/ cond THEN M ELSE Stop(M, "assert")

\* The word at address a holds a value: it was written, or zeroed by memset.
Initialised(M, a) ==
    \/ a \in DOMAIN M.mem
    \/ a >= M.zlo /\ a < M.zhi /\ a % WORD = 0

\* The machine after reading the words at the addresses in addrs.
Reads(M, addrs) ==
    IF M.st # "ok" \/ \A a \in addrs : Initialised(M, a) THEN M
    ELSE Stop(M, "fault")

\* The word read at address a (meaningful when the read does not fault).
Load(M, a) == IF a \in DOMAIN M.mem THEN M.mem[a] ELSE 0

\* The machine after writing v at address a.
Store(M, a, v) ==
    IF M.st # "ok" THEN M
    ELSE IF ~Mapped(a) THEN Stop(M, "fault")
    \* (a zero written into the zeroed segment leaves the word as memset left it)
    ELSE IF v = 0 /\ a >= M.zlo /\ a < M.zhi
    THEN [M EXCEPT !.mem = [x \in (DOMAIN M.mem) \ {a} |-> M.mem[x]]]
    ELSE [M EXCEPT !.mem = [x \in (DOMAIN M.mem) \cup {a} |->
                                IF x = a THEN v ELSE M.mem[x]]]

\* Address of a field of the structure at p.
Fld(p, off) == Add32(p, off)

\* p->field, as a value and as the machine after the read.
Get(M, p, off) == Load(M, Fld(p, off))
Rd(M, p, off) == Reads(M, {Fld(p, off)})
\* p->field = v
Set(M, p, off, v) == Store(M, Fld(p, off), v)
\* p->field = v, a statement that reads the words at addrs to get p and v.
Assign(M, addrs, p, off, v) ==
    IF M.st # "ok" \/ \A a \in addrs : Initialised(M, a)
    THEN Store(M, Fld(p, off), v)
    ELSE Stop(M, "fault")

\* memset((char *)heap->vm_start, 0, segment_size)
Memset0(M, start, len) ==
    [M EXCEPT !.mem = [x \in {y \in DOMAIN M.mem : y < start \/ y >= start + len} |->
                          M.mem[x]],
              !.zlo = start,
              !.zhi = start + len]

----------------------------------------------------------------------------
(* Block record.                                                           *)

\* #define BLOCK_REAL_SIZE(size) ((size)&0xFFFFFFFE)
BLOCK_REAL_SIZE(size) == size - (size % 2)
\* #define BLOCK_IS_FREE(block) ((block->size) & 0x00000001)
BLOCK_IS_FREE(M, block) == Get(M, block, OFF_SIZE) % 2 = 1
\* #define BLOCK_SET_FREE(block) ((block->size) |= 0x00000001)
BLOCK_SET_FREE(M, block) ==
    Assign(M, {Fld(block, OFF_SIZE)}, block, OFF_SIZE,
           BLOCK_REAL_SIZE(Get(M, block, OFF_SIZE)) + 1)
\* #define BLOCK_SET_USED(block) ((block->size) &= 0xFFFFFFFE)
BLOCK_SET_USED(M, block) ==
    Assign(M, {Fld(block, OFF_SIZE)}, block, OFF_SIZE,
           BLOCK_REAL_SIZE(Get(M, block, OFF_SIZE)))

\* round_up(number, base) of math.h: the next multiple of base, in uint32_t.
round_up(number, base) ==
    Add32(number, base - 1) - (Add32(number, base - 1) % base)

\* static inline uint32_t __blkmngr_get_rounded_size(uint32_t size)
__blkmngr_get_rounded_size(size) == round_up(BLOCK_REAL_SIZE(size), ROUND)

\* static inline int __blkmngr_does_it_fit(block_t *block, uint32_t size)
__blkmngr_does_it_fit(M, block, size) ==
    /\ UGe(BLOCK_REAL_SIZE(Get(M, block, OFF_SIZE)), BLOCK_REAL_SIZE(size))
    /\ BLOCK_IS_FREE(M, block)

\* dst->doff = src->soff;
Copy(M, dst, doff, src, soff) ==
    Assign(M, {Fld(src, soff)}, dst, doff, Get(M, src, soff))

\* static inline const char *__block_to_string(block_t *block): the words it
\* reads, block->size when block is not NULL.
__block_to_string(block) ==
    IF block # NULL THEN {Fld(block, OFF_SIZE)} ELSE {}

\* The loop `for (it = ...; it; it = it->link)' of __blkmngr_dump: every node
\* has its size and both links of that list read.  The loop writes nothing,
\* so meeting a node twice means it never ends.
RECURSIVE DumpWalk(_, _, _, _, _)
DumpWalk(M, it, link, back, seen) ==
    IF M.st # "ok" \/ it = NULL THEN M
    ELSE IF it \in seen THEN Stop(M, "hang")
    ELSE DumpWalk(Reads(M, __block_to_string(it) \cup {Fld(it, back), Fld(it, link)}),
                  Get(M, it, link), link, back, seen \cup {it})

\* if (header->first) { for (block_t *it = header->first; ...) ... }
DumpList(M, header, first, link, back) ==
    IF M.st # "ok" THEN M
    ELSE DumpWalk(Rd(M, header, first), Get(M, header, first), link, back, {})

\* static inline void __blkmngr_dump(heap_header_t *header)
__blkmngr_dump(M, header) ==
    IF M.st # "ok" THEN M
    ELSE DumpList(DumpList(Check(M, header # NULL),
                           header, OFF_HEAD, OFF_NEXT, OFF_PREV),
                  header, OFF_FREE, OFF_NEXTFREE, OFF_PREVFREE)

----------------------------------------------------------------------------
(* Free-list manager.                                                      *)

\* if (block == header->free) header->free = block->nextfree;
\* else if (block->prevfree) block->prevfree->nextfree = block->nextfree;
RemovePatchPrev(M, header, block) ==
    IF M.st # "ok" THEN M
    ELSE IF block = Get(M, header, OFF_FREE)
    THEN Assign(M, {Fld(header, OFF_FREE), Fld(block, OFF_NEXTFREE)},
                header, OFF_FREE, Get(M, block, OFF_NEXTFREE))
    ELSE IF Get(M, block, OFF_PREVFREE) # NULL
    THEN Assign(M, {Fld(header, OFF_FREE), Fld(block, OFF_PREVFREE),
                    Fld(block, OFF_NEXTFREE)},
                Get(M, block, OFF_PREVFREE), OFF_NEXTFREE,
                Get(M, block, OFF_NEXTFREE))
    ELSE Reads(M, {Fld(header, OFF_FREE), Fld(block, OFF_PREVFREE)})

\* if (block->nextfree) block->nextfree->prevfree = block->prevfree;
RemovePatchNext(M, block) ==
    IF M.st # "ok" THEN M
    ELSE IF Get(M, block, OFF_NEXTFREE) # NULL
    THEN Assign(M, {Fld(block, OFF_NEXTFREE), Fld(block, OFF_PREVFREE)},
                Get(M, block, OFF_NEXTFREE), OFF_PREVFREE,
                Get(M, block, OFF_PREVFREE))
    ELSE Rd(M, block, OFF_NEXTFREE)

\* static inline void __blkmngr_remove_from_freelist(heap_header_t *header, block_t *block)
__blkmngr_remove_from_freelist(M, header, block) ==
    IF M.st # "ok" THEN M
    ELSE
    LET M0 == Check(M, header # NULL /\ block # NULL)
        M1 == RemovePatchPrev(M0, header, block)
        M2 == RemovePatchNext(M1, block)
        \* block->prevfree = NULL; block->nextfree = NULL;
        M3 == Set(M2, block, OFF_PREVFREE, NULL)
        M4 == Set(M3, block, OFF_NEXTFREE, NULL)
    IN  M4

\* if (header->free) header->free->prevfree = block;
AddPatchHead(M, header, block) ==
    IF M.st # "ok" THEN M
    ELSE IF Get(M, header, OFF_FREE) # NULL
    THEN Assign(M, {Fld(header, OFF_FREE)},
                Get(M, header, OFF_FREE), OFF_PREVFREE, block)
    ELSE Rd(M, header, OFF_FREE)

\* __blkmngr_add_to_freelist leaving the free list as it is: the block is
\* never linked.
AddNothingToFreelist(M, header, block) == M

\* static inline void __blkmngr_add_to_freelist(heap_header_t *header, block_t *block)
__blkmngr_add_to_freelist(M, header, block) ==
    IF M.st # "ok" THEN M
    ELSE
    LET M0 == Check(M, header # NULL /\ block # NULL)
        M1 == AddPatchHead(M0, header, block)
        \* block->prevfree = NULL; block->nextfree = header->free;
        M2 == Set(M1, block, OFF_PREVFREE, NULL)
        M3 == Copy(M2, block, OFF_NEXTFREE, header, OFF_FREE)
        \* header->free = block;
        M4 == Set(M3, header, OFF_FREE, block)
    IN  M4

----------------------------------------------------------------------------
(* Best-fit search.                                                        *)

\* A loop body that replaces the best block also by a block of equal size:
\* among equals the last one met wins.
BestFitPickLast(M, it, size, best_fitting) ==
    IF /\ __blkmngr_does_it_fit(M, it, size)
       /\ \/ best_fitting = NULL
          \/ ULe(BLOCK_REAL_SIZE(Get(M, it, OFF_SIZE)),
                 BLOCK_REAL_SIZE(Get(M, best_fitting, OFF_SIZE)))
    THEN it
    ELSE best_fitting

\* The body of the loop of __blkmngr_find_best_fitting at node `it': the
\* best fitting block after it.
BestFitPick(M, it, size, best_fitting) ==
    IF /\ __blkmngr_does_it_fit(M, it, size)
       /\ \/ best_fitting = NULL
          \/ ULt(BLOCK_REAL_SIZE(Get(M, it, OFF_SIZE)),
                 BLOCK_REAL_SIZE(Get(M, best_fitting, OFF_SIZE)))
    THEN it
    ELSE best_fitting

\* The loop of __blkmngr_find_best_fitting, at node `it' with the best block
\* found so far; `seen' holds the nodes already visited (the loop writes
\* nothing, so visiting a node twice means it never ends).
RECURSIVE BestFitLoop(_, _, _, _, _)
BestFitLoop(M, it, size, best_fitting, seen) ==
    IF M.st # "ok" \/ it = NULL THEN [m |-> M, v |-> best_fitting]
    ELSE IF it \in seen THEN [m |-> Stop(M, "hang"), v |-> NULL]
    ELSE BestFitLoop(Reads(M, {Fld(it, OFF_SIZE), Fld(it, OFF_NEXTFREE)}
                              \cup __block_to_string(best_fitting)),
                     Get(M, it, OFF_NEXTFREE), size,
                     BestFitPick(M, it, size, best_fitting), seen \cup {it})

\* A search that takes the first block of the address-ordered list without
\* consulting the free list.
FindHeadBlock(M, header, size) ==
    [m |-> Rd(M, header, OFF_HEAD), v |-> Get(M, header, OFF_HEAD)]

\* static inline block_t *__blkmngr_find_best_fitting(heap_header_t *header, uint32_t size)
__blkmngr_find_best_fitting(M, header, size) ==
    IF M.st # "ok" THEN [m |-> M, v |-> NULL] ELSE
    BestFitLoop(Rd(Check(M, header # NULL), header, OFF_FREE),
                Get(M, header, OFF_FREE), size, NULL, {})

\* static inline block_t *__blkmngr_get_previous_block(heap_header_t *header, block_t *block)
\* the value returned, and the machine after its asserts and reads.
__blkmngr_get_previous_block(M, header, block) ==
    IF block = Get(M, header, OFF_HEAD) THEN NULL ELSE Get(M, block, OFF_PREV)
GetPreviousBlockReads(M, header, block) ==
    Reads(Check(M, header # NULL /\ block # NULL),
          IF block = Get(M, header, OFF_HEAD)
          THEN {Fld(header, OFF_HEAD)}
          ELSE {Fld(header, OFF_HEAD), Fld(block, OFF_PREV)})

\* static inline block_t *__blkmngr_get_next_block(heap_header_t *header, block_t *block)
\* the value returned, and the machine after its asserts and reads.
__blkmngr_get_next_block(M, header, block) ==
    IF block = Get(M, header, OFF_TAIL) THEN NULL ELSE Get(M, block, OFF_NEXT)
GetNextBlockReads(M, header, block) ==
    Reads(Check(M, header # NULL /\ block # NULL),
          IF block = Get(M, header, OFF_TAIL)
          THEN {Fld(header, OFF_TAIL)}
          ELSE {Fld(header, OFF_TAIL), Fld(block, OFF_NEXT)})

----------------------------------------------------------------------------
(* Block splitter / merger.                                                *)

\* The three pr_debug lines that print a block, its next and its nextfree.
DebugBlock(M, block) ==
    Reads(M, __block_to_string(block)
                 \cup {Fld(block, OFF_NEXT), Fld(block, OFF_NEXTFREE)}
                 \cup __block_to_string(Get(M, block, OFF_NEXT))
                 \cup __block_to_string(Get(M, block, OFF_NEXTFREE)))

\* assert(block); assert(BLOCK_IS_FREE(block));
SplitAsserts(M, block) ==
    IF M.st # "ok" THEN M
    ELSE IF block = NULL THEN Stop(M, "assert")
    ELSE IF ~Initialised(M, Fld(block, OFF_SIZE)) THEN Stop(M, "fault")
    ELSE Check(M, BLOCK_IS_FREE(M, block))

\* split->size = BLOCK_REAL_SIZE(block->size) - OVERHEAD - size;
SplitSize(M, block, split, size) ==
    Assign(M, {Fld(block, OFF_SIZE)}, split, OFF_SIZE,
           Sub32(Sub32(BLOCK_REAL_SIZE(Get(M, block, OFF_SIZE)), OVERHEAD), size))

\* if (header->tail == old) header->tail = new;
ReplaceTail(M, header, old, new) ==
    IF M.st # "ok" THEN M
    ELSE IF Get(M, header, OFF_TAIL) = old
    THEN Assign(M, {Fld(header, OFF_TAIL)}, header, OFF_TAIL, new)
    ELSE Rd(M, header, OFF_TAIL)

\* The pointer updates of __blkmngr_split_block.
SplitLink(M, block, split) ==
    IF M.st # "ok" THEN M
    ELSE
    LET \* split->prev = block; split->prevfree = block;
        M1 == Set(M, split, OFF_PREV, block)
        M2 == Set(M1, split, OFF_PREVFREE, block)
        \* split->next = block->next; split->nextfree = block->nextfree;
        M3 == Copy(M2, split, OFF_NEXT, block, OFF_NEXT)
        M4 == Copy(M3, split, OFF_NEXTFREE, block, OFF_NEXTFREE)
        \* block->next = split; block->nextfree = split;
        M5 == Set(M4, block, OFF_NEXT, split)
        M6 == Set(M5, block, OFF_NEXTFREE, split)
    IN  M6

\* The size updates of __blkmngr_split_block and the replacement of the tail.
SplitResize(M, header, block, size, split) ==
    IF M.st # "ok" THEN M
    ELSE
    LET M1 == SplitSize(M, block, split, size)
        \* block->size = BLOCK_REAL_SIZE(size);
        M2 == Set(M1, block, OFF_SIZE, BLOCK_REAL_SIZE(size))
        \* BLOCK_SET_FREE(split);
        M3 == BLOCK_SET_FREE(M2, split)
        \* if (header->tail == block) header->tail = split;
        M4 == ReplaceTail(M3, header, block, split)
    IN  M4

\* The body of __blkmngr_split_block, with
\* block_t *split = (block_t *)((char *)block + OVERHEAD + size);
SplitInto(M, header, block, size, split) ==
    DebugBlock(
        DebugBlock(
            SplitResize(
                SplitLink(DebugBlock(SplitAsserts(M, block), block), block, split),
                header, block, size, split),
            block),
        split)

\* static inline void __blkmngr_split_block(heap_header_t *header, block_t *block, uint32_t size)
__blkmngr_split_block(M, header, block, size) ==
    SplitInto(M, header, block, size, Add32(Add32(block, OVERHEAD), size))

\* The five asserts of __blkmngr_merge_blocks.
MergeAsserts(M, block1, block2) ==
    IF M.st # "ok" THEN M
    ELSE IF block1 = NULL \/ block2 = NULL THEN Stop(M, "assert")
    ELSE IF ~Initialised(M, Fld(block1, OFF_SIZE)) THEN Stop(M, "fault")
    ELSE IF ~BLOCK_IS_FREE(M, block1) THEN Stop(M, "assert")
    ELSE IF ~Initialised(M, Fld(block2, OFF_SIZE)) THEN Stop(M, "fault")
    ELSE IF ~BLOCK_IS_FREE(M, block2) THEN Stop(M, "assert")
    ELSE IF ~Initialised(M, Fld(block1, OFF_NEXT)) THEN Stop(M, "fault")
    ELSE Check(M, Get(M, block1, OFF_NEXT) = block2)

\* block1->size = BLOCK_REAL_SIZE(block1->size) + BLOCK_REAL_SIZE(block2->size) + OVERHEAD;
MergeSize(M, block1, block2) ==
    Assign(M, {Fld(block1, OFF_SIZE), Fld(block2, OFF_SIZE)}, block1, OFF_SIZE,
           Add32(Add32(BLOCK_REAL_SIZE(Get(M, block1, OFF_SIZE)),
                       BLOCK_REAL_SIZE(Get(M, block2, OFF_SIZE))), OVERHEAD))

\* The updates of block1 in __blkmngr_merge_blocks, once block2 has left the
\* free list.
MergeInto(M, header, block1, block2) ==
    IF M.st # "ok" THEN M
    ELSE
    LET \* block1->next = block2->next;
        M1 == Copy(M, block1, OFF_NEXT, block2, OFF_NEXT)
        M2 == MergeSize(M1, block1, block2)
        \* BLOCK_SET_FREE(block1);
        M3 == BLOCK_SET_FREE(M2, block1)
        \* if (header->tail == block2) header->tail = block1;
        M4 == ReplaceTail(M3, header, block2, block1)
        M5 == DebugBlock(M4, block1)
    IN  M5

\* static inline void __blkmngr_merge_blocks(heap_header_t *header, block_t *block1, block_t *block2)
__blkmngr_merge_blocks(M, header, block1, block2) ==
    IF M.st # "ok" THEN M
    ELSE MergeInto(
             \* __blkmngr_remove_from_freelist(header, block2);
             __blkmngr_remove_from_freelist(
                 DebugBlock(DebugBlock(MergeAsserts(M, block1, block2), block1), block2),
                 header, block2),
             header, block1, block2)

----------------------------------------------------------------------------
(* Heap growth.                                                            *)

\* static void *__do_brk(vm_area_struct_t *heap, uint32_t increment)
\* with uint32_t new_heap_top = mm->brk + increment.
__do_brk(M, h, increment) ==
    IF M.st # "ok" THEN [m |-> M, v |-> NULL]
    \* if (new_heap_top > heap->vm_end) return NULL;
    ELSE IF UGt(Add32(M.brk, increment), h.vm_end) THEN [m |-> M, v |-> NULL]
    \* mm->brk = new_heap_top; return (void *)(mm->brk - increment);
    ELSE [m |-> [M EXCEPT !.brk = Add32(M.brk, increment)],
          v |-> Sub32(Add32(M.brk, increment), increment)]

----------------------------------------------------------------------------
(* Allocator facade.                                                       *)

\* assert(block && "Failed to create a new block!");
\* assert(header->tail && "The tail is not set!");
GrowAsserts(M, header, block) ==
    IF M.st # "ok" THEN M
    ELSE IF block = NULL THEN Stop(M, "assert")
    ELSE IF ~Initialised(M, Fld(header, OFF_TAIL)) THEN Stop(M, "fault")
    ELSE Check(M, Get(M, header, OFF_TAIL) # NULL)

\* header->tail->next = block;
LinkAfterTail(M, header, block) ==
    Assign(M, {Fld(header, OFF_TAIL)}, Get(M, header, OFF_TAIL), OFF_NEXT, block)

\* The else branch of __do_malloc after block = __do_brk(...) returned g.
GrowLink(g, header, rounded_size) ==
    IF g.m.st # "ok" THEN g
    ELSE
    LET M1 == GrowAsserts(g.m, header, g.v)
        M2 == LinkAfterTail(M1, header, g.v)
        \* block->size = rounded_size; block->prev = header->tail; ...
        M3 == Set(M2, g.v, OFF_SIZE, rounded_size)
        M4 == Copy(M3, g.v, OFF_PREV, header, OFF_TAIL)
        M5 == Set(M4, g.v, OFF_NEXT, NULL)
        M6 == Set(M5, g.v, OFF_PREVFREE, NULL)
        M7 == Set(M6, g.v, OFF_NEXTFREE, NULL)
    IN  [m |-> M7, v |-> g.v]

\* The else branch of __do_malloc: no block fits, the heap is extended by
\* block = __do_brk(heap, rounded_size + OVERHEAD).
MallocGrow(M, h, rounded_size) ==
    GrowLink(__do_brk(M, h, Add32(rounded_size, OVERHEAD)), h.vm_start, rounded_size)

\* __do_malloc taking the block found as it is, however large: the split is
\* never made.
SplitNever(M, header, block, rounded_size) ==
    Reads(Rd(M, block, OFF_SIZE), __block_to_string(block))

\* if (BLOCK_REAL_SIZE(block->size) > rounded_size) split the block,
\* else print the perfect block.
SplitIfLarger(M, header, block, rounded_size) ==
    IF M.st # "ok" THEN M
    ELSE IF UGt(BLOCK_REAL_SIZE(Get(M, block, OFF_SIZE)), rounded_size)
    THEN __blkmngr_split_block(Rd(M, block, OFF_SIZE), header, block, rounded_size)
    ELSE Reads(M, __block_to_string(block))

\* The then branch of __do_malloc: a fitting block was found.
MallocFit(M, h, block, rounded_size) ==
    IF M.st # "ok" THEN [m |-> M, v |-> NULL] ELSE
    [m |-> __blkmngr_remove_from_freelist(
               SplitIfLarger(M, h.vm_start, block, rounded_size), h.vm_start, block),
     v |-> block]

\* if (block) { ... } else { ... } of __do_malloc, on the result of the search.
MallocBlock(found, h, rounded_size) ==
    IF found.v # NULL
    THEN MallocFit(found.m, h, found.v, rounded_size)
    ELSE MallocGrow(found.m, h, rounded_size)

\* return (void *)((uintptr_t)block + OVERHEAD);
MallocReturn(M, block) ==
    IF M.st # "ok" THEN [m |-> M, v |-> NULL]
    ELSE [m |-> M, v |-> Add32(block, OVERHEAD)]

\* BLOCK_SET_USED(block); __blkmngr_dump(header); return ...
MallocFinish(got, h) ==
    IF got.m.st # "ok" THEN [m |-> got.m, v |-> NULL] ELSE
    MallocReturn(__blkmngr_dump(BLOCK_SET_USED(got.m, got.v), h.vm_start), got.v)

\* __do_malloc without its first statement `if (size == 0) return NULL;': a
\* zero-size request is searched for and served like any other.
__do_malloc_serving_zero(M, h, size) ==
    MallocFinish(
        MallocBlock(
            __blkmngr_find_best_fitting(M, h.vm_start,
                                        __blkmngr_get_rounded_size(size)),
            h, __blkmngr_get_rounded_size(size)),
        h)

\* static void *__do_malloc(vm_area_struct_t *heap, size_t size)
__do_malloc(M, h, size) ==
    \* if (size == 0) return NULL;
    IF size = 0 THEN [m |-> M, v |-> NULL]
    ELSE MallocFinish(
             MallocBlock(
                 __blkmngr_find_best_fitting(M, h.vm_start,
                                             __blkmngr_get_rounded_size(size)),
                 h, __blkmngr_get_rounded_size(size)),
             h)

\* The reads of the conditions of the if chain of __do_free: prev->size
\* when prev is not NULL, next->size when next is not NULL.
NeighbourReads(M, prev, next) ==
    Reads(M, __block_to_string(prev) \cup __block_to_string(next))

\* __do_free without coalescing: the if chain always takes its last branch
\* and the block is added to the free list as it is.
FreeWithoutCoalescing(M, header, block, prev, next) ==
    __blkmngr_add_to_freelist(NeighbourReads(M, prev, next), header, block)

\* The if chain of __do_free, with block already marked free.
FreeCoalesce(M, header, block, prev, next) ==
    IF M.st # "ok" THEN M
    ELSE IF prev # NULL /\ next # NULL /\ BLOCK_IS_FREE(M, prev) /\ BLOCK_IS_FREE(M, next)
    THEN __blkmngr_merge_blocks(
             __blkmngr_merge_blocks(NeighbourReads(M, prev, next), header, prev, block),
             header, prev, next)
    ELSE IF prev # NULL /\ BLOCK_IS_FREE(M, prev)
    THEN __blkmngr_merge_blocks(NeighbourReads(M, prev, next), header, prev, block)
    ELSE IF next # NULL /\ BLOCK_IS_FREE(M, next)
    THEN __blkmngr_add_to_freelist(
             __blkmngr_merge_blocks(NeighbourReads(M, prev, next), header, block, next),
             header, block)
    ELSE __blkmngr_add_to_freelist(NeighbourReads(M, prev, next), header, block)

\* __do_free on block = ptr - OVERHEAD: prev and next are looked up, the
\* block is marked free and printed, the if chain runs and the heap is dumped.
FreeBlock(M, header, block) ==
    IF M.st # "ok" THEN M ELSE
    __blkmngr_dump(
        FreeCoalesce(
            Reads(BLOCK_SET_FREE(
                      GetNextBlockReads(GetPreviousBlockReads(M, header, block),
                                        header, block),
                      block),
                  __block_to_string(block)),
            header, block,
            __blkmngr_get_previous_block(M, header, block),
            __blkmngr_get_next_block(M, header, block)),
        header)

\* static void __do_free(vm_area_struct_t *heap, void *ptr)
__do_free(M, h, ptr) == FreeBlock(M, h.vm_start, Sub32(ptr, OVERHEAD))

\* create_vm_area(mm, 0x40000000, segment_size, ...): the new area starts at
\* the requested address and spans the requested size.
create_vm_area(vm_start, size) ==
    [vm_start |-> vm_start, vm_end |-> vm_start + size]

\* task->mm->brk = heap->vm_start + sizeof(heap_header_t);
SetBrk(M, top) == [M EXCEPT !.brk = top]

\* memset((char *)heap->vm_start, 0, segment_size); mm->brk = ...; and the
\* initialisation of the header.
HeaderInit(M, h) ==
    LET header == h.vm_start
        M1 == Memset0(M, h.vm_start, segment_size)
        M2 == SetBrk(M1, Add32(h.vm_start, HEADER_SIZE))
        \* header->head = (block_t *)(header + sizeof(heap_header_t)): pointer
        \* arithmetic on heap_header_t *, so sizeof(heap_header_t) elements.
        M3 == Set(M2, header, OFF_HEAD, Add32(header, HEADER_SIZE * HEADER_SIZE))
        M4 == Set(M3, header, OFF_TAIL, Add32(header, HEADER_SIZE * HEADER_SIZE))
        \* header->free = header->head;
        M5 == Copy(M4, header, OFF_FREE, header, OFF_HEAD)
    IN  M5

\* block_t *first = header->head; first->size = heap_size; ...
\* BLOCK_SET_FREE(first);
FirstBlock(M, header) ==
    IF M.st # "ok" THEN M
    ELSE
    LET M1 == Set(Rd(M, header, OFF_HEAD), Get(M, header, OFF_HEAD), OFF_SIZE, heap_size)
        M2 == Set(M1, Get(M, header, OFF_HEAD), OFF_PREV, NULL)
        M3 == Set(M2, Get(M, header, OFF_HEAD), OFF_NEXT, NULL)
        M4 == Set(M3, Get(M, header, OFF_HEAD), OFF_NEXTFREE, NULL)
        M5 == BLOCK_SET_FREE(M4, Get(M, header, OFF_HEAD))
    IN  M5

\* The body of `if (heap == NULL)' of sys_brk after create_vm_area: the
\* segment is zeroed, mm->brk set, the header and the first block written
\* and the heap dumped.
HeapSetup(M, h) ==
    __blkmngr_dump(FirstBlock(HeaderInit(M, h), h.vm_start), h.vm_start)

\* The dispatch test with `>=' for its first comparison: the start of the
\* area counts as a pointer into it.
IsFreeRequestFromStart(h, addr) == UGe(addr, h.vm_start) /\ ULt(addr, h.vm_end)

\* The dispatch test of sys_brk:
\* ((uintptr_t)addr > heap->vm_start) && ((uintptr_t)addr < heap->vm_end)
IsFreeRequest(h, addr) == UGt(addr, h.vm_start) /\ ULt(addr, h.vm_end)

\* _ret = __do_malloc(heap, (size_t)addr);
Returned(r) == [m |-> r.m, v |-> r.v, path |-> "malloc"]

\* The if / else at the end of sys_brk, on the heap area h.
Dispatch(M, h, addr) ==
    IF M.st # "ok" THEN [m |-> M, v |-> NULL, path |-> "none"]
    ELSE IF IsFreeRequest(h, addr)
    THEN [m |-> __do_free(M, h, addr), v |-> NULL, path |-> "free"]
    ELSE Returned(__do_malloc(M, h, addr))

\* What a sys_brk call leaves: the heap area, mm->start_brk, the machine,
\* the value returned (when the call returns) and the branch taken.
SysBrkResult(done, h, sb) ==
    [heap |-> h, start_brk |-> sb, m |-> done.m,
     v |-> IF done.m.st = "ok" THEN done.v ELSE NULL,
     path |-> done.path]

\* void *sys_brk(void *addr), from the heap area h0 found by find_vm_area
\* (NoHeap when there is none) and mm->start_brk sb0.
sys_brk(M, h0, sb0, addr) ==
    IF h0 = NoHeap
    THEN SysBrkResult(
             Dispatch(HeapSetup(M, create_vm_area(HEAP_VM_START, segment_size)),
                      create_vm_area(HEAP_VM_START, segment_size), addr),
             create_vm_area(HEAP_VM_START, segment_size),
             \* task->mm->start_brk = heap->vm_start;
             create_vm_area(HEAP_VM_START, segment_size).vm_start)
    ELSE SysBrkResult(Dispatch(M, h0, addr), h0, sb0)

----------------------------------------------------------------------------
(* The state machine.                                                      *)

\* Request sizes of ordinary allocate requests: nothing, one to three
\* rounding units, and the whole initial block.
AllocSizes == {0, ROUND, 2 * ROUND, 3 * ROUND, heap_size}

\* Arguments at the edges of the rounding, of the dispatch test and of
\* uint32_t: odd sizes, the two ends of the heap area, 0xFFFFFFFF,
\* 0xFFFFFFD0, a multiple of 16 whose sum with OVERHEAD wraps around, and an
\* address inside the area that is no payload pointer: the second word of the
\* payload of the block at header->head.
EdgeArgs ==
    {1, ROUND + 1, HEAP_VM_START, HEAP_VM_START + segment_size, UINT32_MAX,
     Sub32(0, 3 * ROUND),
     HEAP_VM_START + HEADER_SIZE * HEADER_SIZE + OVERHEAD + WORD}

\* Request sizes of malloc: with the malloc header they make one and three
\* rounding units and the whole initial block.
MallocSizes == {ROUND - MALLOC_HEADER_SIZE, 3 * ROUND - MALLOC_HEADER_SIZE,
                heap_size - MALLOC_HEADER_SIZE}

\* New sizes passed to realloc: one that makes one rounding unit with the
\* malloc header, and one whose sum with the malloc header wraps to 0.
ReallocSizes == {ROUND - MALLOC_HEADER_SIZE, Sub32(0, MALLOC_HEADER_SIZE)}

\* The two requests that run interleaved.
Threads == {1, 2}

\* Their request sizes.
RaceSizes == {ROUND, 2 * ROUND, 3 * ROUND}

Init ==
    /\ heap = NoHeap
    /\ mem = << >>
    /\ brk = 0
    /\ start_brk = 0
    /\ status = "ok"
    /\ arg = 0
    /\ path = "none"
    /\ ret = NULL
    /\ live = {}
    /\ trip = "allocating"
    /\ calls = 0
    /\ edges = 0
    /\ hist = << >>
    /\ thr = [t \in Threads |-> [pc |-> "idle", size |-> 0, block |-> NULL, ret |-> NULL]]
    /\ raced = FALSE
    /\ lib = [op |-> "none", arg |-> 0, ret |-> NULL, called |-> FALSE, sys |-> 0,
              st |-> "ok", n |-> 0, owned |-> << >>]

\* The machine a call starts from: the segment of an existing heap was
\* zeroed when it was created.
Machine ==
    [mem |-> mem, brk |-> brk, st |-> "ok",
     zlo |-> heap.vm_start,
     zhi |-> IF heap = NoHeap THEN NULL ELSE heap.vm_start + segment_size]

\* The bookkeeping of the calls made (live pointers, order of allocating
\* and freeing, number and history of the calls) after the call
\* sys_brk(addr) that ended as r, k being the bookkeeping before it.
Noted(k, addr, r) ==
    [live |-> IF r.m.st # "ok" THEN k.live
              ELSE IF r.path = "free" THEN k.live \ {addr}
              ELSE IF r.v # NULL THEN k.live \cup {r.v}
              ELSE k.live,
     trip |-> IF r.m.st # "ok" \/ k.trip = "mixed" THEN k.trip
              ELSE IF r.path = "free" THEN "freeing"
              ELSE IF r.v = NULL THEN k.trip
              ELSE IF k.trip = "freeing" /\ k.live # {} THEN "mixed"
              ELSE "allocating",
     calls |-> k.calls + 1,
     hist |-> Append(k.hist, [arg |-> addr, ret |-> r.v, path |-> r.path])]

\* What the call sys_brk(addr) that ended as r leaves in the kernel, k
\* being the bookkeeping after it.
Left(addr, r, k) ==
    /\ heap' = r.heap
    /\ start_brk' = r.start_brk
    /\ mem' = r.m.mem
    /\ brk' = r.m.brk
    /\ status' = r.m.st
    /\ ret' = r.v
    /\ path' = r.path
    /\ arg' = addr
    /\ live' = k.live
    /\ trip' = k.trip
    /\ calls' = k.calls
    /\ hist' = k.hist

\* What the call sys_brk(addr) that ended as r leaves in the kernel.
Complete(addr, r) ==
    Left(addr, r, Noted([live |-> live, trip |-> trip, calls |-> calls, hist |-> hist],
                        addr, r))

\* One complete sys_brk(addr) call of the task.
Call(addr) ==
    /\ status = "ok"
    /\ \E r \in {sys_brk(Machine, heap, start_brk, addr)} : Complete(addr, r)
    /\ UNCHANGED <<thr, raced, lib>>

\* The task asks for `size' bytes.
Allocate ==
    /\ calls < MaxCalls
    /\ UNCHANGED edges
    /\ \E size \in AllocSizes : Call(size)

\* The task passes an argument from the edges of the argument space.
AllocateEdge ==
    /\ calls < MaxCallsEdge
    /\ edges < MaxEdgeCalls
    /\ edges' = edges + 1
    /\ \E a \in EdgeArgs : Call(a)

\* The task frees a payload pointer it holds.
Free ==
    /\ calls < MaxCalls
    /\ UNCHANGED edges
    /\ \E ptr \in live : Call(ptr)

\* Request sizes of the scenarios: below the heap size, not all multiples
\* of the rounding unit.
ScenarioSizes == {64, 100, 200}

\* The task asks for one of the scenario sizes.
AllocateScenario ==
    /\ calls < MaxCallsScenario
    /\ UNCHANGED edges
    /\ \E size \in ScenarioSizes : Call(size)

\* The task frees a payload pointer it holds, in a scenario.
FreeScenario ==
    /\ calls < MaxCallsScenario
    /\ Free

\* Scenario requests only.
NextScenario == AllocateScenario \/ FreeScenario
SpecScenario == Init /\ [][NextScenario]_vars

\* The variables a step of an interleaved request leaves alone.
RaceFrame ==
    UNCHANGED <<heap, start_brk, arg, path, ret, live, trip, calls, edges, hist, lib>>

\* The machine M is what a step of request t leaves; t goes on at pc with
\* the block and the return value given.
RaceStep(t, M, pc, block, v) ==
    /\ mem' = M.mem
    /\ brk' = M.brk
    /\ status' = M.st
    /\ thr' = [thr EXCEPT ![t] = [pc |-> pc, size |-> thr[t].size,
                                   block |-> block, ret |-> v]]

\* The heap is created by a first, serialized call: sys_brk(0).
CreateHeap ==
    /\ heap = NoHeap
    /\ UNCHANGED edges
    /\ Call(0)

\* Request t enters __do_malloc with a size > 0 and runs
\* block = __blkmngr_find_best_fitting(header, rounded_size).
Search(t) ==
    /\ status = "ok" /\ heap # NoHeap
    /\ thr[t].pc = "idle"
    /\ \E size \in RaceSizes :
       \E f \in {__blkmngr_find_best_fitting(Machine, heap.vm_start,
                                              __blkmngr_get_rounded_size(size))} :
           /\ mem' = f.m.mem
           /\ brk' = f.m.brk
           /\ status' = f.m.st
           /\ thr' = [thr EXCEPT ![t] = [pc |-> "carve",
                                          size |-> __blkmngr_get_rounded_size(size),
                                          block |-> f.v, ret |-> NULL]]
    /\ raced' = (raced \/ \E u \in Threads \ {t} : thr[u].pc \notin {"idle", "done"})
    /\ RaceFrame

\* Request t runs the split of the block it found (when the block is larger
\* than the rounded size), or, having found none, the growth branch.
Carve(t) ==
    /\ status = "ok"
    /\ thr[t].pc = "carve"
    /\ IF thr[t].block # NULL
       THEN \E M \in {SplitIfLarger(Machine, heap.vm_start, thr[t].block, thr[t].size)} :
                RaceStep(t, M, "unlink", thr[t].block, NULL)
       ELSE \E g \in {MallocGrow(Machine, heap, thr[t].size)} :
                RaceStep(t, g.m, "finish", g.v, NULL)
    /\ UNCHANGED raced
    /\ RaceFrame

\* Request t runs __blkmngr_remove_from_freelist(header, block).
Unlink(t) ==
    /\ status = "ok"
    /\ thr[t].pc = "unlink"
    /\ \E M \in {__blkmngr_remove_from_freelist(Machine, heap.vm_start, thr[t].block)} :
           RaceStep(t, M, "finish", thr[t].block, NULL)
    /\ UNCHANGED raced
    /\ RaceFrame

\* Request t runs BLOCK_SET_USED(block), dumps the heap and returns.
Finish(t) ==
    /\ status = "ok"
    /\ thr[t].pc = "finish"
    /\ \E r \in {MallocFinish([m |-> Machine, v |-> thr[t].block], heap)} :
           RaceStep(t, r.m, "done", thr[t].block, r.v)
    /\ UNCHANGED raced
    /\ RaceFrame

\* Two allocate requests interleaved at the granularity of their steps.
NextRace ==
    \/ CreateHeap
    \/ \E t \in Threads : Search(t)
    \/ \E t \in Threads : Carve(t)
    \/ \E t \in Threads : Unlink(t)
    \/ \E t \in Threads : Finish(t)
SpecRace == Init /\ [][NextRace]_vars

\* The payload pointers that were freed and not handed out again since.
Freed ==
    {hist[i].arg : i \in {k \in 1 .. Len(hist) :
                              /\ hist[k].path = "free"
                              /\ \A j \in k + 1 .. Len(hist) : hist[j].ret # hist[k].arg}}

\* Allocate requests of the runs with double frees.
DoubleSizes == {ROUND, 2 * ROUND}
AllocateDouble ==
    /\ calls < MaxCallsDouble
    /\ UNCHANGED edges
    /\ \E size \in DoubleSizes : Call(size)

\* free(ptr) of a pointer that allocate returned and that has not been freed.
FreeDouble == calls < MaxCallsDouble /\ Free

\* free(ptr) once more of a pointer that has been freed already.
FreeAgain ==
    /\ calls < MaxCallsDouble
    /\ UNCHANGED edges
    /\ \E ptr \in Freed \ live : Call(ptr)

\* Allocate, free and double free requests.
NextDoubleFree == AllocateDouble \/ FreeDouble \/ FreeAgain
SpecDoubleFree == Init /\ [][NextDoubleFree]_vars

\* malloc_header_to_ptr and ptr_to_malloc_header of stdlib.c.
malloc_header_to_ptr(header) == Add32(header, MALLOC_HEADER_SIZE)
ptr_to_malloc_header(ptr) == Sub32(ptr, MALLOC_HEADER_SIZE)

\* malloc after its syscall ended as r: if (ptr == 0) return NULL; otherwise
\* header->magic = MALLOC_MAGIC_NUMBER; header->size = size;
MallocHeaderInit(r, size) ==
    IF r.m.st # "ok" \/ r.v = NULL THEN r
    ELSE [r EXCEPT !.m = Store(Store(r.m, r.v, MALLOC_MAGIC_NUMBER),
                               Add32(r.v, WORD), size)]

\* The value malloc returns after its syscall ended as r.
MallocValue(r) ==
    IF r.m.st # "ok" \/ r.v = NULL THEN NULL ELSE malloc_header_to_ptr(r.v)

\* The record of a library call.
LibCall(op, a, v, called, sys, st, owned) ==
    [op |-> op, arg |-> a, ret |-> v, called |-> called, sys |-> sys, st |-> st,
     n |-> lib.n + 1, owned |-> owned]

\* The library may be called: the process runs and has calls left.
LibReady == status = "ok" /\ lib.st = "ok" /\ lib.n < MaxLibCalls

\* The variables a library call without a syscall leaves alone.
NoSyscall ==
    UNCHANGED <<heap, mem, brk, start_brk, status, arg, path, ret, live, trip, calls, hist>>

\* void *malloc(unsigned int size) with size == 0: return NULL.
MallocNothing ==
    /\ LibReady
    /\ lib' = LibCall("malloc", 0, NULL, FALSE, 0, "ok", lib.owned)
    /\ NoSyscall
    /\ UNCHANGED <<thr, raced, edges>>

\* void *malloc(unsigned int size) with size > 0: the brk syscall with
\* size + sizeof(malloc_header_t), then the header.
Malloc ==
    /\ LibReady
    /\ \E size \in MallocSizes :
       \E r \in {MallocHeaderInit(sys_brk(Machine, heap, start_brk,
                                           Add32(size, MALLOC_HEADER_SIZE)), size)} :
           /\ Complete(Add32(size, MALLOC_HEADER_SIZE), r)
           /\ lib' = LibCall("malloc", size, MallocValue(r), TRUE,
                              Add32(size, MALLOC_HEADER_SIZE), "ok",
                              IF MallocValue(r) = NULL THEN lib.owned
                              ELSE [x \in DOMAIN lib.owned \cup {MallocValue(r)} |->
                                       IF x = MallocValue(r) THEN r.v ELSE lib.owned[x]])
    /\ UNCHANGED <<thr, raced, edges>>

\* void free(void *ptr) of a pointer malloc returned: the assert on the
\* magic number, then the brk syscall with the header's address.
LibFree ==
    /\ LibReady
    /\ \E ptr \in DOMAIN lib.owned :
          IF Load(Machine, ptr_to_malloc_header(ptr)) # MALLOC_MAGIC_NUMBER
          THEN /\ lib' = LibCall("free", ptr, NULL, FALSE, 0, "assert", lib.owned)
               /\ NoSyscall
          ELSE \E r \in {sys_brk(Machine, heap, start_brk, ptr_to_malloc_header(ptr))} :
                   /\ Complete(ptr_to_malloc_header(ptr), r)
                   /\ lib' = LibCall("free", ptr, NULL, TRUE, ptr_to_malloc_header(ptr),
                                      "ok", [x \in DOMAIN lib.owned \ {ptr} |-> lib.owned[x]])
    /\ UNCHANGED <<thr, raced, edges>>

\* The byte ranges [a, a + alen) and [b, b + blen) are disjoint (addresses
\* of the heap's area, lengths unsigned 32-bit values).
RangesDisjoint(a, alen, b, blen) ==
    IF a < b THEN ULe(alen, b - a)
    ELSE IF b < a THEN ULe(blen, a - b)
    ELSE alen = 0 \/ blen = 0

\* memcpy(dst, src, 4 * n) from its word i on, the words taken lowest
\* address first (up) or highest address first.
RECURSIVE CopyWords(_, _, _, _, _, _)
CopyWords(M, dst, src, i, n, up) ==
    IF i = n THEN M
    ELSE CopyWords(Store(M, dst + WORD * (IF up THEN i ELSE n - 1 - i),
                         Load(M, src + WORD * (IF up THEN i ELSE n - 1 - i))),
                   dst, src, i + 1, n, up)

\* memset(dst, 0, 4 * n) from its word i on.
RECURSIVE ZeroWords(_, _, _, _)
ZeroWords(M, dst, i, n) ==
    IF i = n THEN M ELSE ZeroWords(Store(M, dst + WORD * i, 0), dst, i + 1, n)

\* memset(newp, 0, size); memcpy(newp, ptr, old_size); in realloc: the
\* machines it can leave. The words of [newp, newp + size) are zeroed,
\* then those of [newp, newp + old_size) take the words of
\* [ptr, ptr + old_size). memcpy between overlapping ranges is undefined:
\* the copy may run in either direction. A write through NULL or past the
\* mapped pages faults.
ZeroAndCopy(M, newp, size, ptr, old_size) ==
    IF M.st # "ok" THEN {M}
    ELSE IF newp = NULL \/ ~Mapped(newp) THEN {Stop(M, "fault")}
    ELSE IF \/ UGt(size, HEAP_VM_START + MappedBytes - newp)
            \/ UGt(old_size, HEAP_VM_START + MappedBytes - newp)
    THEN {Stop(M, "fault")}
    ELSE {CopyWords(ZeroWords(M, newp, 0, size \div WORD),
                    newp, ptr, 0, old_size \div WORD, up) :
              up \in IF RangesDisjoint(newp, old_size, ptr, old_size)
                     THEN {TRUE} ELSE BOOLEAN}

\* realloc from its free(ptr) on: machine M and bookkeeping k are what
\* the inner malloc, which ended as r1, and the copy have left.
ReallocFree(ptr, size, old_size, r1, M, k) ==
    IF M.st # "ok" \/ Load(M, ptr_to_malloc_header(ptr)) # MALLOC_MAGIC_NUMBER
    THEN /\ Left(Add32(size, MALLOC_HEADER_SIZE), [r1 EXCEPT !.m = M], k)
         /\ lib' = [op |-> "realloc", arg |-> ptr, size |-> size, ret |-> NULL,
                    dst |-> MallocValue(r1), copied |-> old_size,
                    st |-> IF M.st # "ok" THEN "ok" ELSE "assert",
                    n |-> lib.n + 1, owned |-> lib.owned]
    ELSE \E r2 \in {sys_brk(M, r1.heap, r1.start_brk, ptr_to_malloc_header(ptr))} :
             /\ Left(ptr_to_malloc_header(ptr), r2,
                     Noted(k, ptr_to_malloc_header(ptr), r2))
             /\ lib' = [op |-> "realloc", arg |-> ptr, size |-> size,
                        ret |-> MallocValue(r1),
                        dst |-> MallocValue(r1), copied |-> old_size, st |-> "ok",
                        n |-> lib.n + 1,
                        owned |-> [x \in (DOMAIN lib.owned \ {ptr}) \cup {MallocValue(r1)} |->
                                      IF x = MallocValue(r1) THEN r1.v ELSE lib.owned[x]]]

\* void *realloc(void *ptr, size_t size) with ptr != NULL and size > 0: the
\* assert on the magic number, old_size = header->size, newp = malloc(size),
\* memset, memcpy, free(ptr), return newp.
Realloc ==
    /\ LibReady
    /\ \E ptr \in {q \in DOMAIN lib.owned :
                       /\ Load(Machine, ptr_to_malloc_header(q)) = MALLOC_MAGIC_NUMBER
                       /\ Load(Machine, Add32(ptr_to_malloc_header(q), WORD))
                              \in MallocSizes \cap 1 .. MaxCopy} :
       \E size \in ReallocSizes :
       \E r1 \in {MallocHeaderInit(sys_brk(Machine, heap, start_brk,
                                            Add32(size, MALLOC_HEADER_SIZE)), size)} :
       \E M \in ZeroAndCopy(r1.m, MallocValue(r1), size, ptr,
                            Load(Machine, Add32(ptr_to_malloc_header(ptr), WORD))) :
           ReallocFree(ptr, size,
                       Load(Machine, Add32(ptr_to_malloc_header(ptr), WORD)), r1, M,
                       Noted([live |-> live, trip |-> trip, calls |-> calls, hist |-> hist],
                             Add32(size, MALLOC_HEADER_SIZE), r1))
    /\ UNCHANGED <<thr, raced, edges>>

\* The process uses the heap through malloc and free of the library only.
NextLibc == MallocNothing \/ Malloc \/ LibFree
SpecLibc == Init /\ [][NextLibc]_vars

\* The process uses realloc as well.
NextRealloc == NextLibc \/ Realloc
SpecRealloc == Init /\ [][NextRealloc]_vars

\* Ordinary requests only.
NextOrdinary == Allocate \/ Free
SpecOrdinary == Init /\ [][NextOrdinary]_vars

\* Every request.
Next == (calls < MaxCallsEdge /\ (Allocate \/ Free)) \/ AllocateEdge
Spec == Init /\ [][Next]_vars

----------------------------------------------------------------------------
(* Views of a state used by the properties below.                          *)

\* A sys_brk call has returned and the kernel runs on.
Completed == status = "ok" /\ path # "none"

\* The word at address a in the current state, and the fields of a block.
Word(a) == Load(Machine, a)
SizeOf(b) == BLOCK_REAL_SIZE(Word(Fld(b, OFF_SIZE)))
IsFree(b) == Word(Fld(b, OFF_SIZE)) % 2 = 1
NextOf(b) == Word(Fld(b, OFF_NEXT))
PrevOf(b) == Word(Fld(b, OFF_PREV))
NextFreeOf(b) == Word(Fld(b, OFF_NEXTFREE))
PrevFreeOf(b) == Word(Fld(b, OFF_PREVFREE))
HeaderHead == Word(Fld(heap.vm_start, OFF_HEAD))
HeaderTail == Word(Fld(heap.vm_start, OFF_TAIL))
HeaderFree == Word(Fld(heap.vm_start, OFF_FREE))

\* The nodes met from p along the link at offset off, up to NULL (or up to
\* the first node met twice or unreadable).
RECURSIVE Chain(_, _, _)
Chain(p, off, seen) ==
    IF p = NULL \/ p \in seen \/ ~Initialised(Machine, Fld(p, off)) THEN << >>
    ELSE <<p>> \o Chain(Word(Fld(p, off)), off, seen \cup {p})

\* header->head, then next links; header->free, then nextfree links.
BlockList == IF heap = NoHeap THEN << >> ELSE Chain(HeaderHead, OFF_NEXT, {})
FreeList == IF heap = NoHeap THEN << >> ELSE Chain(HeaderFree, OFF_NEXTFREE, {})
Range(seq) == {seq[i] : i \in 1 .. Len(seq)}
Blocks == Range(BlockList)
FreeBlocks == Range(FreeList)

\* Block lo, header and payload, ends at or before the base of block hi
\* (lo < hi; the payload size is an unsigned 32-bit value).
EndsBefore(lo, hi) ==
    /\ hi - lo >= OVERHEAD
    /\ ULe(SizeOf(lo), hi - lo - OVERHEAD)

\* The extents [base, base + OVERHEAD + real size) of two blocks are disjoint.
Disjoint(a, b) ==
    IF a < b THEN EndsBefore(a, b)
    ELSE IF b < a THEN EndsBefore(b, a)
    ELSE FALSE

\* The address at which block b ends: its base, its header and its payload.
EndOf(b) == Add32(b, Add32(OVERHEAD, SizeOf(b)))

\* The block whose payload pointer is ptr.
BlockOf(ptr) == Sub32(ptr, OVERHEAD)

\* The rounded sizes __do_malloc passes to the search for ordinary requests.
SearchSizes == {__blkmngr_get_rounded_size(size) : size \in AllocSizes \ {0}}

\* The search of the free list for `size' in the current state.
BestFit(size) == __blkmngr_find_best_fitting(Machine, heap.vm_start, size)

----------------------------------------------------------------------------
(* Properties.                                                             *)

\* C1: after every completed sys_brk call, the extents of the blocks of the
\* address-ordered list (head, then next links) are pairwise disjoint.
NoOverlap ==
    Completed =>
        \A i, j \in 1 .. Len(BlockList) :
            i # j => Disjoint(BlockList[i], BlockList[j])

\* C2: after every completed sys_brk call, the first one included, the blocks
\* of the address-ordered list tile the range up to mm->brk: every successor
\* starts where its predecessor ends, the last block ends at mm->brk and no
\* block extends beyond it.
TilesUpToBrk ==
    Completed =>
        /\ BlockList # << >>
        /\ \A i \in 1 .. Len(BlockList) - 1 : BlockList[i + 1] = EndOf(BlockList[i])
        /\ EndOf(BlockList[Len(BlockList)]) = brk
        /\ \A b \in Blocks : ULe(EndOf(b), brk)

\* C3: after every completed sys_brk call, a block is reachable from
\* header->free along nextfree links if and only if its free flag is set.
FreeListIffFlag ==
    Completed =>
        \A b \in Blocks \cup FreeBlocks : (b \in FreeBlocks) <=> IsFree(b)

\* C4: after a free request completes, no two blocks of the list of which
\* one ends where the other begins are both marked free.
CoalescingClosure ==
    (Completed /\ path = "free") =>
        \A b, c \in Blocks : (c = EndOf(b)) => ~(IsFree(b) /\ IsFree(c))

\* The heap as lazy creation leaves it: one block, free, of the initial size,
\* alone in the free list.
FreshHeap ==
    /\ BlockList = <<HeaderHead>>
    /\ FreeList = <<HeaderHead>>
    /\ IsFree(HeaderHead)
    /\ SizeOf(HeaderHead) = heap_size

\* C5: on a fresh heap, once successful allocate requests have been followed
\* by the free of every pointer they returned, in any order, the heap is
\* again one free block of the initial size, in the free list.
RoundTrip ==
    (Completed /\ trip = "freeing" /\ live = {}) => FreshHeap

\* C6: a non-null result of an allocate request for arg > 0 bytes is the
\* payload of a block whose real size is at least arg, as unsigned 32-bit
\* values.
ResultHoldsRequest ==
    (Completed /\ path = "malloc" /\ ret # NULL) => UGe(SizeOf(BlockOf(ret)), arg)

\* C7: in every state a completed call leaves, the search of the free list
\* for a size returns no block of smaller real size, no block that is not
\* free, and no block while another block of the free list has a smaller real
\* size that is still at least the size.
BestFitChoice ==
    Completed =>
        \A size \in SearchSizes :
            (BestFit(size).m.st = "ok" /\ BestFit(size).v # NULL) =>
                /\ UGe(SizeOf(BestFit(size).v), size)
                /\ IsFree(BestFit(size).v)
                /\ \A b \in FreeBlocks :
                       UGe(SizeOf(b), size) => UGe(SizeOf(b), SizeOf(BestFit(size).v))

\* The allocate request sys_brk(addr) meets an existing heap in which its
\* rounded size exceeds every block of the free list and growing by the
\* rounded size plus the header would push mm->brk past the end of the area.
Exhausting(addr) ==
    /\ heap # NoHeap
    /\ addr # 0
    /\ ~(addr > heap.vm_start /\ addr < heap.vm_end)
    /\ \A b \in FreeBlocks : ULt(SizeOf(b), __blkmngr_get_rounded_size(addr))
    /\ UGt(Add32(brk, Add32(__blkmngr_get_rounded_size(addr), OVERHEAD)), heap.vm_end)

\* C8: such a request returns null without aborting and leaves the memory of
\* the heap (so both lists) and mm->brk unchanged.
ExhaustionRecoverable ==
    [][(calls' = calls + 1 /\ Exhausting(arg')) =>
           (status' = "ok" /\ ret' = NULL /\ mem' = mem /\ brk' = brk)]_vars

\* C9 as stated: every sys_brk(0) returns null and leaves the block list, the
\* free list, every block's size and flag and mm->brk as they were.
ZeroSizeNoEffect ==
    [][(calls' = calls + 1 /\ arg' = 0) =>
           /\ status' = "ok" /\ ret' = NULL
           /\ BlockList' = BlockList /\ FreeList' = FreeList
           /\ brk' = brk]_vars

\* C9: sys_brk(0) on a heap that already exists takes the allocate path,
\* returns null and leaves the heap area, every word of its memory and
\* mm->brk as they were (the block list, the free list and every block's size
\* and flag are read from that memory, so they are as they were too).
ZeroSizeNoEffectOnHeap ==
    [][(calls' = calls + 1 /\ arg' = 0 /\ heap # NoHeap) =>
           /\ status' = "ok" /\ path' = "malloc" /\ ret' = NULL
           /\ mem' = mem /\ brk' = brk /\ heap' = heap]_vars

\* A sys_brk(0) call has returned on a heap an earlier call created.
ZeroSizeOnHeap ==
    Completed /\ calls >= 2 /\ arg = 0 /\ path = "malloc" /\ ret = NULL

\* C10: sys_brk(arg) takes the free path if and only if
\* vm_start < arg < vm_end, both bounds strict, and the allocate path for
\* every other arg.  (Both bounds are below 2^31, so an arg between them is
\* its own signed representation and one of 2^31 or more is negative.)
DispatchStrict ==
    path # "none" =>
        (path = "free" <=> (arg > heap.vm_start /\ arg < heap.vm_end))

\* sys_brk(vm_start) has run on an existing heap, as an allocate request.
DispatchAtStart ==
    calls >= 2 /\ arg = heap.vm_start /\ path = "malloc"

\* C11: a completed free request returns null, and a completed allocate
\* request with a non-null result returns the payload pointer (base plus
\* OVERHEAD) of a block of the list that is marked used and is not a member of
\* the free list.
AllocateResult ==
    Completed =>
        /\ path = "free" => ret = NULL
        /\ (path = "malloc" /\ ret # NULL) =>
               /\ ~IsFree(BlockOf(ret))
               /\ BlockOf(ret) \notin FreeBlocks

\* C12: after every completed sys_brk call the next links from header->head
\* visit blocks at strictly ascending addresses, starting with header->head,
\* and the last block visited, whose next is NULL, is header->tail.
ListAscending ==
    Completed =>
        /\ BlockList # << >>
        /\ BlockList[1] = HeaderHead
        /\ \A i \in 1 .. Len(BlockList) - 1 : ULt(BlockList[i], BlockList[i + 1])
        /\ NextOf(BlockList[Len(BlockList)]) = NULL
        /\ BlockList[Len(BlockList)] = HeaderTail

\* C13: in every state in which the heap exists, mm->brk lies within the heap
\* area, vm_start <= mm->brk <= vm_end as unsigned 32-bit values, whatever the
\* requests and their sizes were.
BrkWithinArea ==
    heap # NoHeap => (ULe(heap.vm_start, brk) /\ ULe(brk, heap.vm_end))

\* C14: no sys_brk call, whatever its argument, leaves mm->brk smaller (as an
\* unsigned 32-bit value) than it was before the call.
BrkMonotonic ==
    [][UGe(brk', brk)]_vars

\* C15: a sys_brk call on an existing heap whose argument lies strictly
\* inside the area and is not a payload pointer the task holds aborts on a
\* failed assertion and leaves every word of the heap's memory as it was.
InvalidFreeDetected ==
    [][(calls' = calls + 1 /\ heap # NoHeap /\ IsFreeRequest(heap, arg')
        /\ arg' \notin live) =>
           (status' = "assert" /\ mem' = mem)]_vars

\* C16: when the first sys_brk call of the task has created the heap (the
\* call is sys_brk(0), which allocates nothing), the header is at vm_start and
\* there is exactly one block: it is free, it is header->head, header->tail
\* and the only member of the free list, it starts right after the header,
\* which is the address mm->brk holds, and it ends within the heap area.
LazyCreation ==
    (Completed /\ calls = 1 /\ arg = 0) =>
        /\ start_brk = heap.vm_start
        /\ BlockList = <<HeaderHead>>
        /\ FreeList = <<HeaderHead>>
        /\ IsFree(HeaderHead)
        /\ HeaderTail = HeaderHead
        /\ HeaderHead = Add32(heap.vm_start, HEADER_SIZE)
        /\ HeaderHead = brk
        /\ ULe(EndOf(HeaderHead), heap.vm_end)

\* C17: after every completed sys_brk call, every payload pointer that an
\* allocate request returned and that has not been freed since is OVERHEAD
\* bytes after a block that is marked used and is reached from header->head
\* along next links.
LiveBlocksListed ==
    Completed =>
        \A p \in live : BlockOf(p) \in Blocks /\ ~IsFree(BlockOf(p))

\* The first two sys_brk calls of the task were allocate(100) and
\* allocate(200): the first created the heap and allocated from it fresh.
ScenarioARun ==
    /\ Completed /\ calls = 2
    /\ hist[1].arg = 100 /\ hist[1].path = "malloc"
    /\ hist[2].arg = 200 /\ hist[2].path = "malloc"

\* C18: on a fresh heap allocate(100) returns a non-null p1, the following
\* allocate(200) returns a non-null p2 different from p1, and the payload
\* ranges [p1, p1 + 100) and [p2, p2 + 200) are disjoint.
ScenarioA ==
    ScenarioARun =>
        /\ hist[1].ret # NULL
        /\ hist[2].ret # NULL
        /\ hist[2].ret # hist[1].ret
        /\ \/ UGe(hist[2].ret, Add32(hist[1].ret, 100))
           \/ UGe(hist[1].ret, Add32(hist[2].ret, 200))

\* Both allocations of scenario A have returned a pointer.
ScenarioAServed ==
    ScenarioARun /\ hist[1].ret # NULL /\ hist[2].ret # NULL

\* The task made four calls: allocate(64) returning A, allocate(64)
\* returning B with B's block starting where A's block ended, free(A),
\* free(B).
ScenarioBRun ==
    /\ Completed /\ calls = 4
    /\ hist[1].arg = 64 /\ hist[1].path = "malloc" /\ hist[1].ret # NULL
    /\ hist[2].arg = 64 /\ hist[2].path = "malloc" /\ hist[2].ret # NULL
    /\ BlockOf(hist[2].ret) = Add32(hist[1].ret, 64)
    /\ hist[3].arg = hist[1].ret /\ hist[3].path = "free"
    /\ hist[4].arg = hist[2].ret /\ hist[4].path = "free"

AllocatedThenFreed ==
    /\ status = "ok" /\ calls >= 2
    /\ hist[calls - 1].path = "malloc" /\ hist[calls - 1].ret # NULL
    /\ hist[calls].path = "free" /\ hist[calls].arg = hist[calls - 1].ret

FirstAllocationFreed ==
    /\ AllocatedThenFreed
    /\ \A i \in 1 .. calls - 2 : hist[i].arg = 0
    /\ ULe(hist[calls - 1].arg, heap_size)

BothReturned ==
    status = "ok" /\ \A t \in Threads : thr[t].pc = "done"

\* C21: two allocate requests on one heap return the same payload pointer
\* only when they were interleaved (one searched the free list while the
\* other was between its search and its return); run one after the other
\* they return different pointers.
SafeOnlySerialized ==
    (BothReturned /\ thr[1].ret = thr[2].ret) => raced

\* Interleaved, both requests have returned the same non-null pointer.
DoubleAllocation ==
    BothReturned /\ raced /\ thr[1].ret # NULL /\ thr[1].ret = thr[2].ret

\* The walk from p along the link at offset off ends at a NULL link: it
\* meets no node twice and reads no unwritten link.
Terminates(p, off) ==
    \/ p = NULL
    \/ /\ Chain(p, off, {}) # << >>
       /\ Initialised(Machine, Fld(Chain(p, off, {})[Len(Chain(p, off, {}))], off))
       /\ Word(Fld(Chain(p, off, {})[Len(Chain(p, off, {}))], off)) = NULL

\* C22: every sys_brk call terminates: no list walk of a call runs into a
\* cycle, and after every completed call the free list (header->free along
\* nextfree) and the block list (header->head along next) are finite,
\* null-terminated and without a cycle.
ListsTerminate ==
    /\ status # "hang"
    /\ Completed => (Terminates(HeaderFree, OFF_NEXTFREE) /\ Terminates(HeaderHead, OFF_NEXT))

\* C23: a double free is not detected: a second free request for a payload
\* pointer whose block is already free never ends in an abort or an error;
\* it runs the normal free path and returns null like a valid free.
DoubleFreeUndetected ==
    [][(calls' = calls + 1 /\ arg' \in Freed \ live)
        => (status' = "ok" /\ path' = "free" /\ ret' = NULL)]_vars

\* On the existing heap, sys_brk(addr) is an allocate request that no free
\* block serves: __do_malloc takes the growth branch.
GrowthRequest(addr) ==
    /\ heap # NoHeap /\ status = "ok"
    /\ ~IsFreeRequest(heap, addr)
    /\ addr # 0
    /\ BestFit(__blkmngr_get_rounded_size(addr)).m.st = "ok"
    /\ BestFit(__blkmngr_get_rounded_size(addr)).v = NULL

\* The increment __do_malloc passes to __do_brk for the request addr.
Increment(addr) == Add32(__blkmngr_get_rounded_size(addr), OVERHEAD)

\* The sum mm->brk + rounded_size + OVERHEAD, taken in the integers and not
\* modulo 2^32, is at most heap->vm_end.
FitsBelowEnd(addr) ==
    /\ ~ULt(Increment(addr), OVERHEAD)
    /\ ~ULt(Add32(brk, Increment(addr)), brk)
    /\ ULe(Add32(brk, Increment(addr)), heap.vm_end)

\* C24: growth succeeds exactly when brk + rounded_size + OVERHEAD, without
\* 32-bit wrap-around, is at most the end of the area; on success brk
\* advances by exactly the increment and the old brk is the base of the new
\* block; on failure null is returned and brk is unchanged.
GrowExact ==
    [][(calls' = calls + 1 /\ GrowthRequest(arg'))
        => IF FitsBelowEnd(arg')
           THEN /\ brk' = Add32(brk, Increment(arg'))
                /\ status' = "ok" => ret' = Add32(brk, OVERHEAD)
           ELSE brk' = brk /\ ret' = NULL]_vars

\* The allocate request for the rounded size `size' would be served by
\* growth in the current state: the heap exists and no free block fits.
ServedByGrowth(size) ==
    /\ Completed
    /\ BestFit(size).m.st = "ok"
    /\ BestFit(size).v = NULL

\* The block at b with payload size `size' overlaps no block of the current
\* address-ordered list.
ClearOfBlocks(b, size) ==
    \A x \in Blocks :
        IF x < b THEN EndsBefore(x, b)
        ELSE x # b /\ x - b >= OVERHEAD /\ ULe(size, x - b - OVERHEAD)

\* C25: an allocate request served by heap growth links the new block after
\* the old tail (old tail's next is the new block, its prev the old tail,
\* its next null), makes it header->tail, marks it used with real size
\* rounded_size, and the new block overlaps no block that existed before.
GrowthAppendsTail ==
    \A size \in SearchSizes :
        ServedByGrowth(size) =>
            \A r \in {__do_malloc(Machine, heap, size)} :
                r.m.st = "ok" =>
                    /\ Get(r.m, HeaderTail, OFF_NEXT) = BlockOf(r.v)
                    /\ Get(r.m, BlockOf(r.v), OFF_PREV) = HeaderTail
                    /\ Get(r.m, BlockOf(r.v), OFF_NEXT) = NULL
                    /\ Get(r.m, heap.vm_start, OFF_TAIL) = BlockOf(r.v)
                    /\ Get(r.m, BlockOf(r.v), OFF_SIZE) = size
                    /\ ClearOfBlocks(BlockOf(r.v), size)

\* The allocate request for the rounded size `size' would be served by the
\* free block b in the current state.
ServedByBlock(size, b) ==
    /\ Completed
    /\ BestFit(size).m.st = "ok"
    /\ b # NULL
    /\ BestFit(size).v = b

\* Block b holds the payload `size' and the header of a remainder.
RoomForRemainder(b, size) == UGe(SizeOf(b), size) /\ UGe(Sub32(SizeOf(b), size), OVERHEAD)

\* C26: on the allocate path the best-fit block is split only when its real
\* size is at least rounded_size + OVERHEAD; a block larger than
\* rounded_size by less than one header is handed out whole, its size
\* unchanged.
SplitOnlyWithRoom ==
    \A size \in SearchSizes : \A b \in FreeBlocks :
        ServedByBlock(size, b) =>
            \A r \in {__do_malloc(Machine, heap, size)} :
                r.m.st = "ok" =>
                    IF RoomForRemainder(b, size)
                    THEN BLOCK_REAL_SIZE(Get(r.m, b, OFF_SIZE)) = size
                    ELSE /\ BLOCK_REAL_SIZE(Get(r.m, b, OFF_SIZE)) = SizeOf(b)
                         /\ Get(r.m, b, OFF_NEXT) = NextOf(b)

\* Where __blkmngr_split_block puts the remainder of block b split at `size'.
RemainderOf(b, size) == Add32(b, Add32(OVERHEAD, size))

\* C27: whenever the allocate path splits a block at `size', afterwards the
\* remainder lies at block + OVERHEAD + size, its real size is the block's
\* old real size - size - OVERHEAD with no unsigned underflow, it is marked
\* free, the block's real size is `size', and header->tail is the remainder
\* if and only if the block was the tail.
SplitResult ==
    \A size \in SearchSizes : \A b \in FreeBlocks :
        (ServedByBlock(size, b) /\ UGt(SizeOf(b), size)) =>
            \A M \in {SplitIfLarger(BestFit(size).m, heap.vm_start, b, size)} :
                M.st = "ok" =>
                    /\ Get(M, b, OFF_NEXT) = RemainderOf(b, size)
                    /\ RoomForRemainder(b, size)
                    /\ BLOCK_REAL_SIZE(Get(M, RemainderOf(b, size), OFF_SIZE))
                           = Sub32(Sub32(SizeOf(b), size), OVERHEAD)
                    /\ BLOCK_IS_FREE(M, RemainderOf(b, size))
                    /\ BLOCK_REAL_SIZE(Get(M, b, OFF_SIZE)) = size
                    /\ (Get(M, heap.vm_start, OFF_TAIL) = RemainderOf(b, size))
                           <=> (HeaderTail = b)

\* C28: after every completed sys_brk call the address-ordered list is
\* consistently doubly linked: head's prev is null, and every block b
\* reachable from head with a non-null next n has n.prev = b (so after a
\* split the old successor's prev is the remainder, and after a merge the
\* prev of the absorbed block's successor is the surviving block).
DoublyLinked ==
    Completed =>
        /\ PrevOf(HeaderHead) = NULL
        /\ \A b \in Blocks : NextOf(b) # NULL => PrevOf(NextOf(b)) = b

\* The nodes met from p along the link at offset off in the memory of
\* machine M, up to NULL (or the first node met twice or unreadable).
RECURSIVE ChainIn(_, _, _, _)
ChainIn(M, p, off, seen) ==
    IF p = NULL \/ p \in seen \/ ~Initialised(M, Fld(p, off)) THEN << >>
    ELSE <<p>> \o ChainIn(M, Get(M, p, off), off, seen \cup {p})

\* The free list of machine M, and the blocks of its two lists.
FreeListIn(M, header) == ChainIn(M, Get(M, header, OFF_FREE), OFF_NEXTFREE, {})
ReachableIn(M, header) ==
    Range(ChainIn(M, Get(M, header, OFF_HEAD), OFF_NEXT, {}))
        \cup Range(FreeListIn(M, header))

\* __do_free(ptr) up to its if chain: the block is marked free.
Freeing(ptr) == BLOCK_SET_FREE(Machine, BlockOf(ptr))

\* The arguments <<block1, block2>> of the first __blkmngr_merge_blocks call
\* that the if chain of __do_free makes for block, if it makes one.
FirstMerge(M, block, prev, next) ==
    IF prev # NULL /\ BLOCK_IS_FREE(M, prev) THEN {<<prev, block>>}
    ELSE IF next # NULL /\ BLOCK_IS_FREE(M, next) THEN {<<block, next>>}
    ELSE {}
FirstMergeOfFree(ptr) ==
    FirstMerge(Freeing(ptr), BlockOf(ptr),
               __blkmngr_get_previous_block(Machine, heap.vm_start, BlockOf(ptr)),
               __blkmngr_get_next_block(Machine, heap.vm_start, BlockOf(ptr)))

\* What merge(first, second) is to leave in machine M, M0 being the machine
\* it started from.
Merged(M0, M, header, first, second) ==
    /\ BLOCK_IS_FREE(M, first)
    /\ BLOCK_REAL_SIZE(Get(M, first, OFF_SIZE))
           = Add32(Add32(BLOCK_REAL_SIZE(Get(M0, first, OFF_SIZE)),
                         BLOCK_REAL_SIZE(Get(M0, second, OFF_SIZE))), OVERHEAD)
    /\ Get(M, first, OFF_NEXT) = Get(M0, second, OFF_NEXT)
    /\ second \notin Range(FreeListIn(M, header))
    /\ (Get(M, header, OFF_TAIL) = first) <=> (Get(M0, header, OFF_TAIL) = second)
    /\ second \notin {Get(M, header, off) : off \in {OFF_HEAD, OFF_TAIL, OFF_FREE}}
    /\ \A x \in ReachableIn(M, header) :
           second \notin {Get(M, x, off) :
                              off \in {OFF_NEXT, OFF_PREV, OFF_NEXTFREE, OFF_PREVFREE}}

\* C29: merge(first, second), called by a free request with both blocks
\* free and first.next = second, leaves first free with real size
\* real_size(first) + real_size(second) + OVERHEAD and with second's old
\* next, removes second from the free list, makes first the tail if and
\* only if second was the tail, and leaves no link (next, prev, nextfree,
\* prevfree or header field) of a reachable block pointing at second.
MergeResult ==
    Completed =>
        \A ptr \in live : \A pair \in FirstMergeOfFree(ptr) :
            \A M \in {__blkmngr_merge_blocks(Freeing(ptr), heap.vm_start,
                                               pair[1], pair[2])} :
                M.st = "ok" => Merged(Freeing(ptr), M, heap.vm_start, pair[1], pair[2])

\* The sequence seq without its entries equal to b.
Without(seq, b) == SelectSeq(seq, LAMBDA x : x # b)

\* C30: remove_from_free_list on a block of the free list yields exactly
\* the former free list without the block, in the same order: header->free
\* is patched when the block was first, its former neighbours are linked to
\* each other in both directions, and every other member stays reachable.
RemoveUnlinks ==
    Completed =>
        \A i \in 1 .. Len(FreeList) :
            \A M \in {__blkmngr_remove_from_freelist(Machine, heap.vm_start, FreeList[i])} :
                M.st = "ok" =>
                    /\ FreeListIn(M, heap.vm_start) = Without(FreeList, FreeList[i])
                    /\ (i = 1 /\ Len(FreeList) > 1)
                           => Get(M, FreeList[2], OFF_PREVFREE) = NULL
                    /\ (i > 1 /\ i < Len(FreeList))
                           => Get(M, FreeList[i + 1], OFF_PREVFREE) = FreeList[i - 1]

\* C31: remove_from_free_list is never silently executed on a block that is
\* not a member of the free list: the call that merge makes on the block
\* being freed, which is not in the free list, is caught by an assertion
\* and aborts.
RemoveOfNonMemberAsserted ==
    Completed =>
        \A ptr \in live : \A pair \in FirstMergeOfFree(ptr) :
            pair[2] \notin FreeBlocks =>
                __blkmngr_remove_from_freelist(Freeing(ptr), heap.vm_start, pair[2]).st
                    = "assert"

\* The positions of the free list fl whose block is flagged free and has a
\* real size of at least `size'.
Qualifying(fl, size) ==
    {i \in 1 .. Len(fl) : IsFree(fl[i]) /\ UGe(SizeOf(fl[i]), size)}

\* Position i of fl holds a block of the smallest real size among the
\* positions Q, and no earlier position of Q does.
FirstSmallest(fl, Q, i) ==
    /\ i \in Q
    /\ \A j \in Q :
           /\ ULe(SizeOf(fl[i]), SizeOf(fl[j]))
           /\ j < i => ULt(SizeOf(fl[i]), SizeOf(fl[j]))

\* C32: find_best_fit scans the whole free list from header->free; among
\* the qualifying blocks (flagged free, real size >= size) of the smallest
\* real size it returns the one met first in free-list order, and it
\* returns null exactly when no block of the free list qualifies.
BestFitFirstSmallest ==
    Completed =>
        \A fl \in {FreeList} : \A size \in SearchSizes :
            \A r \in {BestFit(size)} : \A Q \in {Qualifying(fl, size)} :
                r.m.st = "ok" =>
                    IF Q = {}
                    THEN r.v = NULL
                    ELSE \E i \in Q : FirstSmallest(fl, Q, i) /\ r.v = fl[i]

\* The free list holds two qualifying blocks of the same smallest real size
\* and the search has returned the earlier one.
BestFitTie ==
    /\ Completed
    /\ \E fl \in {FreeList} : \E size \in SearchSizes :
       \E Q \in {Qualifying(fl, size)} : \E i, j \in Q :
           /\ i < j
           /\ FirstSmallest(fl, Q, i)
           /\ SizeOf(fl[j]) = SizeOf(fl[i])
           /\ BestFit(size).m.st = "ok"
           /\ BestFit(size).v = fl[i]

\* The positions of the free list whose block is flagged free and holds the
\* payload byte at ptr.
FreeHolders(ptr) ==
    {i \in 1 .. Len(FreeList) :
        /\ IsFree(FreeList[i])
        /\ ULe(Add32(FreeList[i], OVERHEAD), ptr)
        /\ ULt(ptr - FreeList[i] - OVERHEAD, SizeOf(FreeList[i]))}

\* C33: a free of a validly allocated block coalesces it with its free
\* address-adjacent neighbours by one of the four branches, and afterwards
\* the freed payload belongs to exactly one free block, which occurs exactly
\* once in the free list.
FreedIntoOneFreeBlock ==
    (Completed /\ path = "free") =>
        /\ Terminates(HeaderFree, OFF_NEXTFREE)
        /\ Cardinality(FreeHolders(arg)) = 1

\* The real size recorded for the allocation with payload pointer ptr.
PayloadSize(ptr) == SizeOf(BlockOf(ptr))

\* C34: in every state reachable by allocate and valid free requests, the
\* payload ranges [p, p + real size) of the live allocations are pairwise
\* disjoint, contain no block header and not the heap header, and lie
\* inside [vm_start, vm_end).
LivePayloadsSafe ==
    Completed =>
        \A p \in live :
            /\ \A q \in live \ {p} :
                   RangesDisjoint(p, PayloadSize(p), q, PayloadSize(q))
            /\ \A b \in Blocks : RangesDisjoint(p, PayloadSize(p), b, OVERHEAD)
            /\ RangesDisjoint(p, PayloadSize(p), heap.vm_start, HEADER_SIZE)
            /\ p >= heap.vm_start /\ p <= heap.vm_end
            /\ ULe(PayloadSize(p), heap.vm_end - p)

\* C35: in every reachable state every block of the address-ordered list
\* or of the free list lies inside the region: its base is at least
\* vm_start + sizeof(heap_header_t) and its base + OVERHEAD + real size is
\* at most vm_end.
BlocksInsideRegion ==
    Completed =>
        \A b \in Blocks \cup FreeBlocks :
            /\ b >= heap.vm_start + HEADER_SIZE
            /\ b + OVERHEAD <= heap.vm_end
            /\ ULe(SizeOf(b), heap.vm_end - b - OVERHEAD)

\* C36: after every completed sys_brk call the free list is consistently
\* doubly linked: the prevfree of header->free is null, every member b with
\* a non-null nextfree n has n.prevfree = b, and no member's prevfree points
\* to a block outside the free list.
FreeListDoublyLinked ==
    Completed =>
        /\ HeaderFree # NULL => PrevFreeOf(HeaderFree) = NULL
        /\ \A b \in FreeBlocks :
               /\ NextFreeOf(b) # NULL => PrevFreeOf(NextFreeOf(b)) = b
               /\ PrevFreeOf(b) # NULL => PrevFreeOf(b) \in FreeBlocks

\* C37: for every sequence of allocate requests that do not exhaust the
\* region and of free requests on live payload pointers, none of the
\* allocator's assertions fails (merge is called with two free blocks with
\* first.next = second, split with a free block, the tail is set): a call
\* aborts only when it is a growth that does not fit below vm_end.
AssertionsHold ==
    [][(calls' = calls + 1 /\ ~(GrowthRequest(arg') /\ ~FitsBelowEnd(arg')))
        => status' # "assert"]_vars

\* C38: in the user-space library, free(p) of a pointer p that malloc
\* returned passes the magic-number check and issues the brk syscall with
\* exactly the address the syscall had returned for that allocation, and
\* malloc(0) returns NULL without a syscall.
LibraryFreeMatchesMalloc ==
    [][lib'.n = lib.n + 1 =>
          /\ lib'.op = "free" =>
                 (lib'.st = "ok" /\ lib'.called /\ lib'.sys = lib.owned[lib'.arg])
          /\ (lib'.op = "malloc" /\ lib'.arg = 0) => (lib'.ret = NULL /\ ~lib'.called)]_vars

\* C39: realloc(ptr, size) with ptr non-null and size > 0 never writes
\* outside the newly allocated buffer: it copies at most min(old size, size)
\* bytes into the new buffer and writes through no null pointer when the
\* inner malloc fails.
ReallocWritesInside ==
    (lib.op = "realloc") => (lib.dst # NULL /\ ULe(lib.copied, lib.size))

====
